---- MODULE Spec2Model ----
(***************************************************************************)
(* InMemoryCollection of src/backend/database.py: a dictionary from        *)
(* primary key to document, with insert_one, find, find_one, update_one,   *)
(* count_documents and aggregate.                                          *)
(*                                                                         *)
(* Python values live on a heap of mutable objects (lists and dicts) so    *)
(* that sharing between the collection and its caller is visible: a value  *)
(* is a scalar or a reference to a heap object, copy.deepcopy allocates    *)
(* new objects, list.append stores the reference it is given.              *)
(***************************************************************************)
EXTENDS Integers, Sequences, FiniteSets, TLC

\* ------------------------------------------------------------------ bounds
MaxOps == 3       \* calls the caller makes in one behaviour
MaxMut == 1       \* mutations the caller makes to objects it holds

\* ------------------------------------------------------------------ values
\* A value is [t, v]: None, a number, a string (v indexes the strings in
\* their natural order) or a reference to a heap object.  The heap is the
\* sequence of the live objects; an object is a list or a dict.
NoneV == [t |-> "none", v |-> 0]
Absent == [t |-> "absent", v |-> 0]
Num(n) == [t |-> "num", v |-> n]
Str(n) == [t |-> "str", v |-> n]
Ref(x) == [t |-> "ref", v |-> x]

Fields == <<"_id", "a", "b">>
FieldSet == {Fields[i] : i \in 1..Len(Fields)}
NoFields == [x \in FieldSet |-> Absent]

NewList(items) == [t |-> "list", items |-> items, f |-> NoFields]
NewDict(f) == [t |-> "dict", items |-> <<>>, f |-> f]

IsList(h, val) == val.t = "ref" /\ h[val.v].t = "list"
IsDict(h, val) == val.t = "ref" /\ h[val.v].t = "dict"

\* A new object takes the next address.
Alloc(h) == Len(h) + 1
Put(h, x, obj) == IF x > Len(h) THEN Append(h, obj) ELSE [h EXCEPT ![x] = obj]

\* The values an object holds, in a fixed order.
Children(h, x) ==
    IF h[x].t = "list" THEN h[x].items
    ELSE [i \in 1..Len(Fields) |-> h[x].f[Fields[i]]]

Range(s) == {s[i] : i \in 1..Len(s)}

RECURSIVE RefSeq(_)
RefSeq(vals) ==
    IF vals = <<>> THEN <<>>
    ELSE IF Head(vals).t = "ref" THEN <<Head(vals).v>> \o RefSeq(Tail(vals))
    ELSE RefSeq(Tail(vals))

\* The objects reachable from a stack of addresses, in depth-first order.
RECURSIVE Reach(_, _, _)
Reach(h, todo, seen) ==
    IF todo = <<>> THEN seen
    ELSE IF Head(todo) \in Range(seen) THEN Reach(h, Tail(todo), seen)
    ELSE Reach(h, RefSeq(Children(h, Head(todo))) \o Tail(todo), Append(seen, Head(todo)))

\* Reference counting: the objects no root reaches are reclaimed.  The live
\* objects are renumbered in the order the roots reach them; to.h is the new
\* heap and to.at the new address of every live object.
Collect(h, roots) ==
    LET live == Reach(h, RefSeq(roots), <<>>)
        at == [x \in Range(live) |-> CHOOSE i \in 1..Len(live) : live[i] = x]
        mv(val) == IF val.t = "ref" THEN Ref(at[val.v]) ELSE val
        obj(x) == IF h[x].t = "list"
                  THEN NewList([i \in 1..Len(h[x].items) |-> mv(h[x].items[i])])
                  ELSE NewDict([k \in FieldSet |-> mv(h[x].f[k])])
    IN [h |-> [i \in 1..Len(live) |-> obj(live[i])], at |-> at]

Moved(to, val) == IF val.t = "ref" THEN Ref(to.at[val.v]) ELSE val

\* Structural content of a value as a sequence of integers: two values are
\* equal under Python's == exactly when their serialisations are equal.
RECURSIVE Ser(_, _)
RECURSIVE SerSeq(_, _, _)
Ser(h, val) ==
    IF val.t = "absent" THEN <<0>>
    ELSE IF val.t = "none" THEN <<1>>
    ELSE IF val.t = "num" THEN <<2, val.v>>
    ELSE IF val.t = "str" THEN <<3, val.v>>
    ELSE IF h[val.v].t = "list"
         THEN <<4, Len(h[val.v].items)>> \o SerSeq(h, h[val.v].items, 1)
    ELSE <<5>> \o SerSeq(h, Children(h, val.v), 1)
SerSeq(h, vals, i) ==
    IF i > Len(vals) THEN <<>>
    ELSE Ser(h, vals[i]) \o SerSeq(h, vals, i + 1)

Eq(h, v1, v2) == Ser(h, v1) = Ser(h, v2)

\* copy.deepcopy: every object reachable from val is copied once (the memo
\* keeps sharing inside one copy); scalars are returned as they are.
RECURSIVE DeepCopy(_, _, _)
RECURSIVE DeepCopySeq(_, _, _, _, _)
DeepCopy(h, memo, val) ==
    IF val.t # "ref" THEN [h |-> h, memo |-> memo, val |-> val]
    ELSE IF val.v \in DOMAIN memo THEN [h |-> h, memo |-> memo, val |-> Ref(memo[val.v])]
    ELSE LET n == Alloc(h)
             h1 == Put(h, n, IF h[val.v].t = "list" THEN NewList(<<>>)
                                ELSE NewDict(NoFields))
             m1 == [x \in DOMAIN memo \cup {val.v} |->
                        IF x = val.v THEN n ELSE memo[x]]
             r == DeepCopySeq(h1, m1, Children(h, val.v), 1, <<>>)
             obj == IF h[val.v].t = "list" THEN NewList(r.vals)
                    ELSE NewDict([x \in FieldSet |->
                            r.vals[CHOOSE i \in 1..Len(Fields) : Fields[i] = x]])
         IN [h |-> [r.h EXCEPT ![n] = obj], memo |-> r.memo, val |-> Ref(n)]
DeepCopySeq(h, memo, vals, i, acc) ==
    IF i > Len(vals) THEN [h |-> h, memo |-> memo, vals |-> acc]
    ELSE LET r == DeepCopy(h, memo, vals[i])
         IN DeepCopySeq(r.h, r.memo, vals, i + 1, Append(acc, r.val))

EmptyMemo == [x \in {} |-> 0]
deepcopy(h, val) == DeepCopy(h, EmptyMemo, val)

\* ------------------------------------------------------- path resolution
\* A path is the sequence of parts path.split(".") yields.
RECURSIVE GetFrom(_, _, _, _)
GetFrom(h, current, parts, i) ==
    IF i > Len(parts) THEN current
    ELSE IF ~IsDict(h, current) \/ h[current.v].f[parts[i]] = Absent THEN NoneV
    ELSE GetFrom(h, h[current.v].f[parts[i]], parts, i + 1)

get_nested_value(h, doc, path) == GetFrom(h, doc, path, 1)

RECURSIVE SetFrom(_, _, _, _, _)
SetFrom(h, current, parts, i, value) ==
    IF i = Len(parts)
    THEN [h EXCEPT ![current].f[parts[i]] = value]
    ELSE IF ~IsDict(h, h[current].f[parts[i]])
    THEN LET n == Alloc(h)
             h1 == [Put(h, n, NewDict(NoFields)) EXCEPT ![current].f[parts[i]] = Ref(n)]
         IN SetFrom(h1, n, parts, i + 1, value)
    ELSE SetFrom(h, h[current].f[parts[i]].v, parts, i + 1, value)

set_nested_value(h, doc, path, value) == SetFrom(h, doc.v, path, 1, value)

\* ------------------------------------------------------- query evaluation
\* A criterion is a literal (lit) or an operator object with any of
\* $in, $gte, $lte.  A match is "true", "false" or the error it raises.
Lit(val) ==
    [lit |-> TRUE, val |-> val, hasIn |-> FALSE, opts |-> <<>>,
     hasGte |-> FALSE, gte |-> NoneV, hasLte |-> FALSE, lte |-> NoneV]
Ops(hasIn, opts, hasGte, gte, hasLte, lte) ==
    [lit |-> FALSE, val |-> NoneV, hasIn |-> hasIn, opts |-> opts,
     hasGte |-> hasGte, gte |-> gte, hasLte |-> hasLte, lte |-> lte]

Bool(b) == IF b THEN "true" ELSE "false"

\* The comparison with <= in place of <.
LessOrEqual(x, y) ==
    IF x.t = y.t /\ x.t \in {"num", "str"} THEN Bool(x.v <= y.v) ELSE "TypeError"

\* Python's < on two values: defined between two numbers or two strings,
\* TypeError otherwise.
Less(x, y) ==
    IF x.t = y.t /\ x.t \in {"num", "str"} THEN Bool(x.v < y.v) ELSE "TypeError"

InOptions(h, val, opts) == \E i \in 1..Len(opts) : Eq(h, val, opts[i])

\* $in that tests the value as a whole, also when it is a list.
matches_criteria_whole(h, value, criteria) ==
    IF ~criteria.lit
    THEN IF criteria.hasIn
         THEN Bool(InOptions(h, value, criteria.opts))
         ELSE LET lo == IF ~criteria.hasGte THEN "true"
                        ELSE IF value = NoneV THEN "false"
                        ELSE LET r == Less(value, criteria.gte)
                             IN IF r = "TypeError" THEN r
                                ELSE IF r = "true" THEN "false" ELSE "true"
                  hi == IF ~criteria.hasLte THEN "true"
                        ELSE IF value = NoneV THEN "false"
                        ELSE LET r == Less(criteria.lte, value)
                             IN IF r = "TypeError" THEN r
                                ELSE IF r = "true" THEN "false" ELSE "true"
              IN IF lo # "true" THEN lo ELSE hi
    ELSE Bool(Eq(h, value, criteria.val))

matches_criteria(h, value, criteria) ==
    IF ~criteria.lit
    THEN IF criteria.hasIn
         THEN IF IsList(h, value)
              THEN Bool(\E i \in 1..Len(h[value.v].items) :
                            InOptions(h, h[value.v].items[i], criteria.opts))
              ELSE Bool(InOptions(h, value, criteria.opts))
         ELSE LET lo == IF ~criteria.hasGte THEN "true"
                        ELSE IF value = NoneV THEN "false"
                        ELSE LET r == Less(value, criteria.gte)
                             IN IF r = "TypeError" THEN r
                                ELSE IF r = "true" THEN "false" ELSE "true"
                  hi == IF ~criteria.hasLte THEN "true"
                        ELSE IF value = NoneV THEN "false"
                        ELSE LET r == Less(criteria.lte, value)
                             IN IF r = "TypeError" THEN r
                                ELSE IF r = "true" THEN "false" ELSE "true"
              IN IF lo # "true" THEN lo ELSE hi
    ELSE Bool(Eq(h, value, criteria.val))

\* A query is the sequence of its (path, criteria) items.
RECURSIVE MatchFrom(_, _, _, _)
MatchFrom(h, doc, query, i) ==
    IF i > Len(query) THEN "true"
    ELSE LET r == matches_criteria(h, get_nested_value(h, doc, query[i].path),
                                   query[i].criteria)
         IN IF r # "true" THEN r ELSE MatchFrom(h, doc, query, i + 1)

matches_query(h, doc, query) == MatchFrom(h, doc, query, 1)

\* --------------------------------------------------------- update applier
\* An update is [hasPush, push, hasPull, pull]; push and pull are the
\* sequences of (path, value) items of the operator's mapping.
RECURSIVE PushFrom(_, _, _, _, _)
PushFrom(h, doc, push, i, modified) ==
    IF i > Len(push) THEN [h |-> h, modified |-> modified]
    ELSE LET found == get_nested_value(h, doc, push[i].path)
             n == Alloc(h)
             h1 == IF found = NoneV
                   THEN set_nested_value(Put(h, n, NewList(<<>>)),
                                         doc, push[i].path, Ref(n))
                   ELSE h
             existing == IF found = NoneV THEN Ref(n) ELSE found
         IN IF IsList(h1, existing)
            THEN PushFrom([h1 EXCEPT ![existing.v].items = Append(@, push[i].value)],
                          doc, push, i + 1, TRUE)
            ELSE PushFrom(h1, doc, push, i + 1, modified)

\* The comprehension of $pull with its test inverted: keeps the equal items.
RECURSIVE WithoutInverted(_, _, _)
WithoutInverted(h, items, value) ==
    IF items = <<>> THEN <<>>
    ELSE IF ~Eq(h, Head(items), value) THEN WithoutInverted(h, Tail(items), value)
    ELSE <<Head(items)>> \o WithoutInverted(h, Tail(items), value)

RECURSIVE Without(_, _, _)
Without(h, items, value) ==
    IF items = <<>> THEN <<>>
    ELSE IF Eq(h, Head(items), value) THEN Without(h, Tail(items), value)
    ELSE <<Head(items)>> \o Without(h, Tail(items), value)

RECURSIVE PullFrom(_, _, _, _, _)
RECURSIVE PullFromAlways(_, _, _, _, _)
\* $pull that marks the document modified whenever the field is a list.
PullFromAlways(h, doc, pull, i, modified) ==
    IF i > Len(pull) THEN [h |-> h, modified |-> modified]
    ELSE LET existing == get_nested_value(h, doc, pull[i].path)
         IN IF IsList(h, existing)
            THEN LET kept == Without(h, h[existing.v].items, pull[i].value)
                 IN PullFromAlways([h EXCEPT ![existing.v].items = kept], doc, pull,
                                   i + 1, TRUE)
            ELSE PullFromAlways(h, doc, pull, i + 1, modified)

PullFrom(h, doc, pull, i, modified) ==
    IF i > Len(pull) THEN [h |-> h, modified |-> modified]
    ELSE LET existing == get_nested_value(h, doc, pull[i].path)
         IN IF IsList(h, existing)
            THEN LET kept == Without(h, h[existing.v].items, pull[i].value)
                 IN PullFrom([h EXCEPT ![existing.v].items = kept], doc, pull, i + 1,
                             modified \/ Len(kept) # Len(h[existing.v].items))
            ELSE PullFrom(h, doc, pull, i + 1, modified)

apply_update(h, doc, update) ==
    LET p == IF update.hasPush THEN PushFrom(h, doc, update.push, 1, FALSE)
             ELSE [h |-> h, modified |-> FALSE]
    IN IF update.hasPull THEN PullFrom(p.h, doc, update.pull, 1, p.modified) ELSE p

\* ------------------------------------------------------------ collection
\* self._docs is the sequence of its (key, document) entries in insertion
\* order, which is the order a Python dict enumerates them in.
KeyIndex(d, key) ==
    IF \E i \in 1..Len(d) : d[i].key = key
    THEN CHOOSE i \in 1..Len(d) : d[i].key = key
    ELSE 0

\* insert_one that keeps the document already stored under the key
\* (setdefault in place of assignment).
insert_one_keep(h, d, doc) ==
    LET doc_id == IF h[doc.v].f["_id"] = Absent THEN NoneV ELSE h[doc.v].f["_id"]
        c == deepcopy(h, doc)
    IN IF doc_id = NoneV THEN [h |-> h, docs |-> d, err |-> "ValueError"]
       ELSE IF doc_id.t = "ref" THEN [h |-> h, docs |-> d, err |-> "TypeError"]
       ELSE IF KeyIndex(d, doc_id) # 0 THEN [h |-> h, docs |-> d, err |-> ""]
       ELSE [h |-> c.h, docs |-> Append(d, [key |-> doc_id, doc |-> c.val]), err |-> ""]

\* insert_one that adds an entry without looking for the key (a list of
\* documents in place of the dict).
insert_one_dup(h, d, doc) ==
    LET doc_id == IF h[doc.v].f["_id"] = Absent THEN NoneV ELSE h[doc.v].f["_id"]
        c == deepcopy(h, doc)
    IN IF doc_id = NoneV THEN [h |-> h, docs |-> d, err |-> "ValueError"]
       ELSE IF doc_id.t = "ref" THEN [h |-> h, docs |-> d, err |-> "TypeError"]
       ELSE [h |-> c.h, docs |-> Append(d, [key |-> doc_id, doc |-> c.val]), err |-> ""]

insert_one(h, d, doc) ==
    LET doc_id == IF h[doc.v].f["_id"] = Absent THEN NoneV ELSE h[doc.v].f["_id"]
        c == deepcopy(h, doc)
        i == KeyIndex(d, doc_id)
    IN IF doc_id = NoneV THEN [h |-> h, docs |-> d, err |-> "ValueError"]
       ELSE IF doc_id.t = "ref" THEN [h |-> h, docs |-> d, err |-> "TypeError"]
       ELSE [h |-> c.h,
             docs |-> IF i = 0 THEN Append(d, [key |-> doc_id, doc |-> c.val])
                      ELSE [d EXCEPT ![i].doc = c.val],
             err |-> ""]

\* The first entry at or after i whose document matches the query: its index
\* (Len(d) + 1 when there is none), or the error the matching raises.
RECURSIVE NextMatch(_, _, _, _)
NextMatch(h, d, query, i) ==
    IF i > Len(d) THEN [i |-> i, err |-> ""]
    ELSE LET r == matches_query(h, d[i].doc, query)
         IN IF r = "true" THEN [i |-> i, err |-> ""]
            ELSE IF r = "false" THEN NextMatch(h, d, query, i + 1)
            ELSE [i |-> i, err |-> r]

\* find_one that returns the stored document itself.
find_one_nocopy(h, d, query) ==
    LET m == NextMatch(h, d, query, 1)
    IN IF m.err # "" THEN [h |-> h, val |-> NoneV, err |-> m.err]
       ELSE IF m.i > Len(d) THEN [h |-> h, val |-> NoneV, err |-> ""]
       ELSE [h |-> h, val |-> d[m.i].doc, err |-> ""]

find_one(h, d, query) ==
    LET m == NextMatch(h, d, query, 1)
        c == deepcopy(h, d[m.i].doc)
    IN IF m.err # "" THEN [h |-> h, val |-> NoneV, err |-> m.err]
       ELSE IF m.i > Len(d) THEN [h |-> h, val |-> NoneV, err |-> ""]
       ELSE [h |-> c.h, val |-> c.val, err |-> ""]

\* update_one that, once a document matches, updates the last entry.
update_one_last(h, d, query, update) ==
    LET m == NextMatch(h, d, query, 1)
        u == apply_update(h, d[Len(d)].doc, update)
    IN IF m.err # "" THEN [h |-> h, docs |-> d, n |-> 0, err |-> m.err]
       ELSE IF m.i > Len(d) THEN [h |-> h, docs |-> d, n |-> 0, err |-> ""]
       ELSE [h |-> u.h, docs |-> d, n |-> IF u.modified THEN 1 ELSE 0, err |-> ""]

update_one(h, d, query, update) ==
    LET m == NextMatch(h, d, query, 1)
        u == apply_update(h, d[m.i].doc, update)
    IN IF m.err # "" THEN [h |-> h, docs |-> d, n |-> 0, err |-> m.err]
       ELSE IF m.i > Len(d) THEN [h |-> h, docs |-> d, n |-> 0, err |-> ""]
       ELSE [h |-> u.h,
             docs |-> IF u.modified THEN [d EXCEPT ![m.i].doc = d[m.i].doc] ELSE d,
             n |-> IF u.modified THEN 1 ELSE 0,
             err |-> ""]

\* sum(1 for _ in self.find(query)): the copies find yields are dropped.
RECURSIVE CountFrom(_, _, _, _, _)
CountFrom(h, d, query, i, n) ==
    LET m == NextMatch(h, d, query, i)
    IN IF m.err # "" THEN [n |-> 0, err |-> m.err]
       ELSE IF m.i > Len(d) THEN [n |-> n, err |-> ""]
       ELSE CountFrom(h, d, query, m.i + 1, n + 1)

\* count_documents that stops at the first match (any() in place of sum()).
count_documents_any(h, d, query) ==
    [n |-> IF CountFrom(h, d, query, 1, 0).n > 0 THEN 1 ELSE 0,
     err |-> CountFrom(h, d, query, 1, 0).err]

count_documents(h, d, query) == CountFrom(h, d, query, 1, 0)

\* ------------------------------------------------------------ aggregation
\* A stage is [op, path, dir]: op is the stage's key, path the parts of its
\* path with the leading "$" stripped, dir the direction of a $sort.
\* The lists the stages build are [h, vals, err]: the heap, the documents
\* so far, the error raised ("" for none).
Appended(acc, c) == [acc EXCEPT !.h = c.h, !.vals = Append(@, c.val)]

\* new_doc is the copy c; the item is stored into it at the path.
UnwindItem(acc, c, path, item) ==
    [acc EXCEPT !.h = set_nested_value(c.h, c.val, path, item),
                !.vals = Append(@, c.val)]

RECURSIVE UnwindItems(_, _, _, _, _)
UnwindItems(acc, doc, path, items, i) ==
    IF i > Len(items) THEN acc
    ELSE UnwindItems(UnwindItem(acc, deepcopy(acc.h, doc), path, items[i]),
                     doc, path, items, i + 1)

UnwindDoc(acc, doc, path, value) ==
    IF IsList(acc.h, value)
    THEN UnwindItems(acc, doc, path, acc.h[value.v].items, 1)
    ELSE Appended(acc, deepcopy(acc.h, doc))

RECURSIVE UnwindFrom(_, _, _, _)
UnwindFrom(acc, ds, path, i) ==
    IF i > Len(ds) THEN acc
    ELSE UnwindFrom(UnwindDoc(acc, ds[i], path, get_nested_value(acc.h, ds[i], path)),
                    ds, path, i + 1)

unwind(h, ds, path) == UnwindFrom([h |-> h, vals |-> <<>>, err |-> ""], ds, path, 1)

\* grouped is a dict keyed by the value at path: a list or a dict there is
\* unhashable.
GroupDoc(acc, keys, key) ==
    IF key.t = "ref" THEN [acc EXCEPT !.vals = <<>>, !.err = "TypeError"]
    ELSE IF key \in keys THEN acc
    ELSE [acc EXCEPT !.h = Put(@, Alloc(@), NewDict([NoFields EXCEPT !["_id"] = key])),
                     !.vals = Append(@, Ref(Alloc(acc.h)))]

GroupKeys(acc) == {acc.h[acc.vals[i].v].f["_id"] : i \in 1..Len(acc.vals)}

RECURSIVE GroupFrom(_, _, _, _)
GroupFrom(acc, ds, path, i) ==
    IF i > Len(ds) \/ acc.err # "" THEN acc
    ELSE GroupFrom(GroupDoc(acc, GroupKeys(acc), get_nested_value(acc.h, ds[i], path)),
                   ds, path, i + 1)

group_by(h, ds, path) == GroupFrom([h |-> h, vals |-> <<>>, err |-> ""], ds, path, 1)

\* InMemoryCollection has no _sort_docs: looking the method up fails.
sort_docs(h, ds, dir) == [h |-> h, vals |-> <<>>, err |-> "AttributeError"]

StageOf(acc, stage) ==
    IF stage.op = "$unwind" THEN unwind(acc.h, acc.vals, stage.path)
    ELSE IF stage.op = "$group" THEN group_by(acc.h, acc.vals, stage.path)
    ELSE IF stage.op = "$sort" THEN sort_docs(acc.h, acc.vals, stage.dir)
    ELSE [acc EXCEPT !.vals = <<>>, !.err = "NotImplementedError"]

RECURSIVE Stages(_, _, _)
Stages(acc, pipeline, i) ==
    IF i > Len(pipeline) \/ acc.err # "" THEN acc
    ELSE Stages(StageOf(acc, pipeline[i]), pipeline, i + 1)

RECURSIVE CopyAll(_, _, _)
CopyAll(acc, ds, i) ==
    IF i > Len(ds) THEN acc
    ELSE CopyAll(Appended(acc, deepcopy(acc.h, ds[i])), ds, i + 1)

YieldAll(r) ==
    IF r.err # "" THEN r ELSE CopyAll([r EXCEPT !.vals = <<>>], r.vals, 1)

\* The whole sequence aggregate yields, or the error that ends it.
aggregate(h, d, pipeline) ==
    YieldAll(Stages([h |-> h, vals |-> [i \in 1..Len(d) |-> d[i].doc], err |-> ""],
                    pipeline, 1))

\* ----------------------------------------------------------------- inputs
\* What the caller passes in.  A list literal is written [t |-> "list",
\* v |-> k] for the k-th list of ListTable and becomes a new heap object of
\* the caller when the call is made.
ListTable == << <<>>, <<Num(1)>>, <<Num(1), Num(2)>>, <<Num(2)>> >>
TList(k) == [t |-> "list", v |-> k]

Build(h, lit) ==
    IF lit.t = "list"
    THEN [h |-> Put(h, Alloc(h), NewList(ListTable[lit.v])), val |-> Ref(Alloc(h))]
    ELSE [h |-> h, val |-> lit]

\* The document {"_id": t.id, "a": t.a}, a field left out when Absent.
BuildDoc(h, t) ==
    LET b == Build(h, t.a)
    IN [h |-> Put(b.h, Alloc(b.h),
                  NewDict([NoFields EXCEPT !["_id"] = t.id, !["a"] = b.val])),
        val |-> Ref(Alloc(b.h))]

RECURSIVE BuildItems(_, _, _, _)
BuildItems(h, items, i, out) ==
    IF i > Len(items) THEN [h |-> h, items |-> out]
    ELSE LET b == Build(h, items[i].value)
         IN BuildItems(b.h, items, i + 1,
                       Append(out, [path |-> items[i].path, value |-> b.val]))

BuildUpdate(h, u) ==
    LET p == BuildItems(h, u.push, 1, <<>>)
        q == BuildItems(p.h, u.pull, 1, <<>>)
    IN [h |-> q.h,
        update |-> [hasPush |-> u.hasPush, push |-> p.items,
                    hasPull |-> u.hasPull, pull |-> q.items]]

Doc(id, a) == [id |-> id, a |-> a]
Item(path, value) == [path |-> path, value |-> value]
Crit(path, criteria) == <<[path |-> path, criteria |-> criteria]>>
QAll == <<>>
QId(k) == Crit(<<"_id">>, Lit(Num(k)))
QIn == Crit(<<"a">>, Ops(TRUE, <<Num(1)>>, FALSE, NoneV, FALSE, NoneV))
QInGte == Crit(<<"a">>, Ops(TRUE, <<Num(1)>>, TRUE, Num(2), FALSE, NoneV))
QGte == Crit(<<"a">>, Ops(FALSE, <<>>, TRUE, Num(1), FALSE, NoneV))
QRange(lo, hi) == Crit(<<"a">>, Ops(FALSE, <<>>, TRUE, Num(lo), TRUE, Num(hi)))

Push(items) == [hasPush |-> TRUE, push |-> items, hasPull |-> FALSE, pull |-> <<>>]
Pull(items) == [hasPush |-> FALSE, push |-> <<>>, hasPull |-> TRUE, pull |-> items]
PushPull(pushed, pulled) ==
    [hasPush |-> TRUE, push |-> pushed, hasPull |-> TRUE, pull |-> pulled]

Stage(op, path, dir) == [op |-> op, path |-> path, dir |-> dir]

\* Five callers, each with the documents, queries, updates and pipelines it
\* uses; only the aliasing caller changes the objects it holds.  The
\* "concurrent" callers are two threads on one collection (ConcSpec).
Callers == {"aliasing", "querying", "updating", "aggregating", "iterating"}

DocInputs(c) ==
    IF c = "concurrent"
    THEN {Doc(Num(1), TList(1)), Doc(Num(1), TList(2)), Doc(Num(2), TList(1))}
    ELSE IF c = "aliasing" THEN {Doc(Num(1), TList(2))}
    ELSE IF c = "querying"
    THEN {Doc(Num(1), x) : x \in {Absent, NoneV, Num(1), Str(1), TList(1), TList(2)}}
         \cup {Doc(Num(2), Num(2)), Doc(Num(2), TList(4))}
    ELSE IF c = "updating"
    THEN {Doc(Num(1), x) : x \in {Absent, NoneV, Num(1), TList(1), TList(2)}}
         \cup {Doc(Num(2), TList(3)), Doc(Absent, Num(1)), Doc(NoneV, Num(1))}
    ELSE IF c = "aggregating"
    THEN {Doc(Num(1), x) : x \in {Absent, Num(1), TList(3)}}
         \cup {Doc(Num(2), x) : x \in {Num(2), TList(4)}}
    ELSE {Doc(Num(1), Num(1)), Doc(Num(2), Num(1)), Doc(Num(1), Num(2))}

QueryInputs(c) ==
    IF c = "concurrent" THEN {QAll, QId(1)}
    ELSE IF c = "aliasing" THEN {QId(1)}
    ELSE IF c = "querying"
    THEN {Crit(<<"a">>, Lit(Num(1))), QIn, QInGte, QGte, QRange(1, 1), QRange(2, 2),
          QRange(1, 2)}
    ELSE IF c = "updating" THEN {QAll, QId(1), QId(2)}
    ELSE {QAll}

CountInputs(c) ==
    IF c = "querying" THEN QueryInputs(c)
    ELSE IF c = "aliasing" THEN {}
    ELSE {QAll}

FindInputs(c) ==
    IF c = "aliasing" THEN {QAll}
    ELSE IF c = "iterating" THEN {QAll, Crit(<<"a">>, Lit(Num(1)))}
    ELSE {}

UpdateQueryInputs(c) ==
    IF c = "concurrent" THEN {QAll, QId(2)}
    ELSE IF c = "aliasing" THEN {QAll}
    ELSE IF c = "querying" THEN {QGte}
    ELSE IF c = "updating" THEN {QAll, QId(1), QId(2)}
    ELSE IF c = "iterating" THEN {QId(2)}
    ELSE {}

UpdateInputs(c) ==
    IF c = "concurrent"
    THEN {Push(<<Item(<<"a">>, Num(2)), Item(<<"b">>, Num(1))>>),
          PushPull(<<Item(<<"a">>, Num(2))>>, <<Item(<<"a">>, Num(1))>>),
          Pull(<<Item(<<"a">>, Num(1))>>)}
    ELSE IF c = "aliasing" THEN {Push(<<Item(<<"a">>, TList(1))>>)}
    ELSE IF c = "querying" THEN {Push(<<Item(<<"a">>, Num(1))>>)}
    ELSE IF c = "updating"
    THEN {Push(<<Item(<<"a">>, Num(1))>>),
          Pull(<<Item(<<"a">>, Num(1))>>),
          PushPull(<<Item(<<"a">>, Num(1))>>, <<Item(<<"a">>, Num(1))>>),
          Push(<<Item(<<"a">>, Num(2)), Item(<<"b">>, Num(1))>>),
          Push(<<Item(<<"_id", "a">>, Num(1))>>)}
    ELSE IF c = "iterating" THEN {Push(<<Item(<<"b">>, Num(1))>>)}
    ELSE {}

PipelineInputs(c) ==
    IF c = "aliasing" THEN {<<>>}
    ELSE IF c = "aggregating"
    THEN {<<>>,
          <<Stage("$unwind", <<"a">>, 0)>>,
          <<Stage("$group", <<"a">>, 0)>>,
          <<Stage("$unwind", <<"a">>, 0), Stage("$group", <<"a">>, 0)>>,
          <<Stage("$sort", <<"a">>, 1)>>,
          <<Stage("$sort", <<"a">>, -1)>>,
          <<Stage("$match", <<"a">>, 0)>>,
          <<Stage("$unwind", <<"a">>, 0), Stage("$match", <<"a">>, 0)>>,
          <<Stage("$group", <<"a">>, 0), Stage("$match", <<"a">>, 0)>>,
          <<Stage("$sort", <<"a">>, 1), Stage("$match", <<"a">>, 0)>>}
    ELSE {}

\* ------------------------------------------------------------------ state
VARIABLES
    caller,   \* which caller drives the collection
    heap,     \* the live objects
    docs,     \* self._docs
    held,     \* what the caller holds: arg, the document it last passed to
              \* insert_one; pushed, the values it last passed to $push;
              \* ret, the documents the calls returned, each with its call
    cursor,   \* the generator find returned: its state st, its query, the
              \* dict iterator's position pos and the dict size used it
              \* recorded, and the call that made it
    last,     \* the last step: the call, its inputs, its outcome, the
              \* collection before it
    nops,     \* calls made
    nmut,     \* mutations made
    inserted, \* history: the keys insert_one has stored a document under
    writer    \* an update_one in progress in another thread: where it
              \* stands (st, k), the entry i of the document it matched, its
              \* update, and the document's content before and after it

vars == <<caller, heap, docs, held, cursor, last, nops, nmut, inserted, writer>>

NoUpdate == [hasPush |-> FALSE, push |-> <<>>, hasPull |-> FALSE, pull |-> <<>>]
NoCursor == [st |-> "none", query |-> <<>>, pos |-> 0, used |-> 0, call |-> 0]
NoWriter ==
    [st |-> "idle", i |-> 0, query |-> <<>>, update |-> NoUpdate, k |-> 0,
     modified |-> FALSE, pre |-> <<>>, post |-> <<>>]
NoStep ==
    [op |-> "", err |-> "", n |-> 0, found |-> FALSE,
     doc |-> [id |-> Absent, a |-> Absent], query |-> <<>>, update |-> NoUpdate,
     pipeline |-> <<>>, root |-> "", idx |-> 0,
     before |-> [h |-> <<>>, docs |-> <<>>], rets |-> <<>>]

DocRefs(d) == [i \in 1..Len(d) |-> d[i].doc]
RetRefs(hl) == [i \in 1..Len(hl.ret) |-> hl.ret[i].doc]
MovedDocs(to, d) == [i \in 1..Len(d) |-> [key |-> d[i].key, doc |-> Moved(to, d[i].doc)]]

\* The state a step leaves: garbage reclaimed, references renumbered.
Pack(h, d, hl) ==
    LET to == Collect(h, DocRefs(d) \o <<hl.arg>> \o hl.pushed \o RetRefs(hl))
    IN [h |-> to.h,
        docs |-> MovedDocs(to, d),
        held |-> [arg |-> Moved(to, hl.arg),
                  pushed |-> [i \in 1..Len(hl.pushed) |-> Moved(to, hl.pushed[i])],
                  ret |-> [i \in 1..Len(hl.ret) |->
                              [call |-> hl.ret[i].call, doc |-> Moved(to, hl.ret[i].doc)]]]]

\* The collection alone.
Snap(h, d) ==
    LET to == Collect(h, DocRefs(d))
    IN [h |-> to.h, docs |-> MovedDocs(to, d)]

Returned(hl, call, vals) ==
    [hl EXCEPT !.ret = @ \o [i \in 1..Len(vals) |-> [call |-> call, doc |-> vals[i]]]]

Init ==
    /\ caller \in Callers
    /\ heap = <<>>
    /\ docs = <<>>
    /\ held = [arg |-> NoneV, pushed |-> <<>>, ret |-> <<>>]
    /\ cursor = NoCursor
    /\ last = NoStep
    /\ nops = 0
    /\ nmut = 0
    /\ inserted = {}
    /\ writer = NoWriter

StepAs(h, d, hl, step, w) ==
    LET p == Pack(h, d, hl)
    IN /\ heap' = p.h
       /\ docs' = p.docs
       /\ held' = p.held
       /\ last' = [step EXCEPT !.before = Snap(heap, docs)]
       /\ caller' = caller
       /\ inserted' = IF step.op = "insert_one" /\ step.err = ""
                      THEN inserted \cup {step.doc.id} ELSE inserted
       /\ writer' = w

\* A step of a call that runs from its first line to its return.
Step(h, d, hl, step) == StepAs(h, d, hl, step, writer)

Call == nops < MaxOps /\ nops' = nops + 1 /\ nmut' = nmut

InsertOne(t) ==
    LET b == BuildDoc(heap, t)
        r == insert_one(b.h, docs, b.val)
    IN /\ Call
       /\ Step(r.h, r.docs, [held EXCEPT !.arg = b.val],
               [NoStep EXCEPT !.op = "insert_one", !.doc = t, !.err = r.err])
       /\ UNCHANGED cursor

FindOne(query) ==
    LET r == find_one(heap, docs, query)
    IN /\ Call
       /\ Step(r.h, docs,
               IF r.val = NoneV THEN held ELSE Returned(held, nops + 1, <<r.val>>),
               [NoStep EXCEPT !.op = "find_one", !.query = query, !.err = r.err,
                              !.found = (r.val # NoneV)])
       /\ UNCHANGED cursor

CountDocuments(query) ==
    LET r == count_documents(heap, docs, query)
    IN /\ Call
       /\ Step(heap, docs, held,
               [NoStep EXCEPT !.op = "count_documents", !.query = query,
                              !.err = r.err, !.n = r.n])
       /\ UNCHANGED cursor

UpdateOne(query, u) ==
    LET b == BuildUpdate(heap, u)
        r == update_one(b.h, docs, query, b.update)
    IN /\ Call
       /\ Step(r.h, r.docs,
               [held EXCEPT !.pushed = [i \in 1..Len(b.update.push) |->
                                           b.update.push[i].value]],
               [NoStep EXCEPT !.op = "update_one", !.query = query, !.update = u,
                              !.err = r.err, !.n = r.n])
       /\ UNCHANGED cursor

Aggregate(pipeline) ==
    LET r == aggregate(heap, docs, pipeline)
    IN /\ Call
       /\ Step(r.h, docs,
               IF r.err # "" THEN held ELSE Returned(held, nops + 1, r.vals),
               [NoStep EXCEPT !.op = "aggregate", !.pipeline = pipeline,
                              !.err = r.err, !.n = Len(r.vals)])
       /\ UNCHANGED cursor

\* find is a generator function: the call makes the generator, no line of the
\* body runs before the first next().
Find(query) ==
    /\ Call
    /\ cursor' = [st |-> "new", query |-> query, pos |-> 0, used |-> 0, call |-> nops + 1]
    /\ Step(heap, docs, held, [NoStep EXCEPT !.op = "find", !.query = query])

\* next() on the generator runs the loop up to the next yield.  The first
\* next() makes the iterator over self._docs.values(), which records the size
\* of the dict; every step of a dict iterator first compares that size with
\* the dict's and raises RuntimeError when they differ.
find_next(h, d, c) ==
    LET pos == IF c.st = "new" THEN 1 ELSE c.pos
        used == IF c.st = "new" THEN Len(d) ELSE c.used
        m == NextMatch(h, d, c.query, pos)
        y == deepcopy(h, d[m.i].doc)
        done == [c EXCEPT !.st = "done"]
    IN IF used # Len(d)
       THEN [h |-> h, val |-> NoneV, err |-> "RuntimeError", cursor |-> done]
       ELSE IF m.err # "" THEN [h |-> h, val |-> NoneV, err |-> m.err, cursor |-> done]
       ELSE IF m.i > Len(d)
       THEN [h |-> h, val |-> NoneV, err |-> "StopIteration", cursor |-> done]
       ELSE [h |-> y.h, val |-> y.val, err |-> "",
             cursor |-> [c EXCEPT !.st = "iter", !.pos = m.i + 1, !.used = used]]

FindNext ==
    LET r == find_next(heap, docs, cursor)
    IN /\ cursor.st \in {"new", "iter"}
       /\ cursor' = r.cursor
       /\ Step(r.h, docs,
               IF r.val = NoneV THEN held ELSE Returned(held, cursor.call, <<r.val>>),
               [NoStep EXCEPT !.op = "next", !.query = cursor.query, !.err = r.err,
                              !.found = (r.val # NoneV)])
       /\ UNCHANGED <<nops, nmut>>

\* The caller changes an object it holds: the root it starts from is the
\* document it passed to insert_one, a value it passed to $push or a
\* document a call returned; the object is any one that root reaches.  A
\* list gets an element appended, a dict gets the field "b" set.
Marker == Str(2)
Mutated(obj) ==
    IF obj.t = "list" THEN [obj EXCEPT !.items = Append(@, Marker)]
    ELSE [obj EXCEPT !.f["b"] = Marker]

HeldRoots ==
    {[root |-> "arg", idx |-> 0, val |-> held.arg]}
    \cup {[root |-> "pushed", idx |-> i, val |-> held.pushed[i]] : i \in 1..Len(held.pushed)}
    \cup {[root |-> "ret", idx |-> i, val |-> held.ret[i].doc] : i \in 1..Len(held.ret)}

Mutate(r, x) ==
    /\ caller = "aliasing"
    /\ nmut < MaxMut
    /\ nmut' = nmut + 1
    /\ Step([heap EXCEPT ![x] = Mutated(@)], docs, held,
            [NoStep EXCEPT !.op = "mutate", !.root = r.root, !.idx = r.idx,
                           !.n = IF r.val = Ref(x) THEN 0 ELSE 1,
                           !.rets = [i \in 1..Len(held.ret) |-> Ser(heap, held.ret[i].doc)]])
    /\ UNCHANGED <<cursor, nops>>

Next ==
    \/ \E t \in DocInputs(caller) : InsertOne(t)
    \/ \E query \in QueryInputs(caller) : FindOne(query)
    \/ \E query \in CountInputs(caller) : CountDocuments(query)
    \/ \E query \in FindInputs(caller) : Find(query)
    \/ FindNext
    \/ \E query \in UpdateQueryInputs(caller), u \in UpdateInputs(caller) :
          UpdateOne(query, u)
    \/ \E pipeline \in PipelineInputs(caller) : Aggregate(pipeline)
    \/ \E r \in HeldRoots : \E x \in Range(Reach(heap, RefSeq(<<r.val>>), <<>>)) :
          Mutate(r, x)

Spec == Init /\ [][Next]_vars

\* ------------------------------------------------------ two threads
\* InMemoryCollection takes no lock.  When two threads call it, the
\* interpreter switches between them between bytecodes: update_one of one
\* thread is a sequence of steps, one per entry of $push and of $pull
\* (list.append and the slice assignment are single steps), and a call of
\* the other thread can run between any two of them.
Entries(w) ==
    IF w.st = "push" THEN (IF w.update.hasPush THEN w.update.push ELSE <<>>)
    ELSE (IF w.update.hasPull THEN w.update.pull ELSE <<>>)

Started(h, d, query, u, m, after) ==
    [st |-> "push", i |-> m.i, query |-> query, update |-> u, k |-> 1,
     modified |-> FALSE, pre |-> Ser(h, d[m.i].doc), post |-> Ser(after.h, d[m.i].doc)]

\* The loop of update_one up to the call of _apply_update on the first match;
\* with no match (or an error of the matching) the call returns at once.
UpdateBegin(query, u) ==
    /\ writer.st = "idle"
    /\ Call
    /\ IF NextMatch(heap, docs, query, 1).err # ""
          \/ NextMatch(heap, docs, query, 1).i > Len(docs)
       THEN Step(heap, docs, held,
                 [NoStep EXCEPT !.op = "update_one", !.query = query, !.update = u,
                                !.err = NextMatch(heap, docs, query, 1).err])
       ELSE StepAs(heap, docs, held,
                   [NoStep EXCEPT !.op = "update_begin", !.query = query, !.update = u],
                   Started(heap, docs, query, u, NextMatch(heap, docs, query, 1),
                           apply_update(heap, docs[NextMatch(heap, docs, query, 1).i].doc, u)))
    /\ UNCHANGED cursor

Applied(w, r) == [w EXCEPT !.k = @ + 1, !.modified = r.modified]

\* One entry of $push or of $pull; past the last $push entry the $pull
\* entries; past the last $pull entry the return of update_one.
UpdateStep ==
    /\ writer.st \in {"push", "pull"}
    /\ IF writer.k <= Len(Entries(writer))
       THEN IF writer.st = "push"
            THEN StepAs(PushFrom(heap, docs[writer.i].doc, <<Entries(writer)[writer.k]>>,
                                 1, writer.modified).h,
                        docs, held, [NoStep EXCEPT !.op = "update_step"],
                        Applied(writer, PushFrom(heap, docs[writer.i].doc,
                                                 <<Entries(writer)[writer.k]>>, 1,
                                                 writer.modified)))
            ELSE StepAs(PullFrom(heap, docs[writer.i].doc, <<Entries(writer)[writer.k]>>,
                                 1, writer.modified).h,
                        docs, held, [NoStep EXCEPT !.op = "update_step"],
                        Applied(writer, PullFrom(heap, docs[writer.i].doc,
                                                 <<Entries(writer)[writer.k]>>, 1,
                                                 writer.modified)))
       ELSE IF writer.st = "push"
       THEN StepAs(heap, docs, held, [NoStep EXCEPT !.op = "update_step"],
                   [writer EXCEPT !.st = "pull", !.k = 1])
       ELSE StepAs(heap, docs, held,
                   [NoStep EXCEPT !.op = "update_one", !.query = writer.query,
                                  !.update = writer.update,
                                  !.n = IF writer.modified THEN 1 ELSE 0],
                   NoWriter)
    /\ UNCHANGED <<cursor, nops, nmut>>

ConcInit ==
    /\ caller = "concurrent"
    /\ heap = <<>>
    /\ docs = <<>>
    /\ held = [arg |-> NoneV, pushed |-> <<>>, ret |-> <<>>]
    /\ cursor = NoCursor
    /\ last = NoStep
    /\ nops = 0
    /\ nmut = 0
    /\ inserted = {}
    /\ writer = NoWriter

ConcNext ==
    \/ \E t \in DocInputs(caller) : writer.st = "idle" /\ InsertOne(t)
    \/ \E query \in QueryInputs(caller) : FindOne(query)
    \/ \E query \in UpdateQueryInputs(caller), u \in UpdateInputs(caller) :
          UpdateBegin(query, u)
    \/ UpdateStep

ConcSpec == ConcInit /\ [][ConcNext]_vars

\* ----------------------------------------------------------------- views
\* The content of the collection, free of addresses: per entry the key and
\* the document.
Content(h, d) == [i \in 1..Len(d) |-> <<Ser(h, d[i].key), Ser(h, d[i].doc)>>]
Now == Content(heap, docs)
Before == Content(last.before.h, last.before.docs)

LastRet == held.ret[Len(held.ret)].doc
OneCriterion(query) == Len(query) = 1 /\ ~query[1].criteria.lit
Matched(h, d, query) ==
    LET m == NextMatch(h, d, query, 1) IN IF m.err = "" /\ m.i <= Len(d) THEN m.i ELSE 0
FieldAt(h, d, i, path) == get_nested_value(h, d[i].doc, path)

\* ------------------------------------------------------------------ claims

\* C1: right after insert_one(D) succeeds, in whatever state the collection
\* was, find_one({"_id": D["_id"]}) returns a document structurally equal to D.
C1_InsertThenFindOne ==
    (last.op = "insert_one" /\ last.err = "") =>
        LET r == find_one(heap, docs, Crit(<<"_id">>, Lit(last.doc.id)))
            D == BuildDoc(<<>>, last.doc)
        IN r.err = "" /\ r.val # NoneV /\ Ser(r.h, r.val) = Ser(D.h, D.val)

C1_Witness ==
    /\ last.op = "insert_one" /\ last.err = ""
    /\ Len(docs) = 2 /\ last.doc.id = Num(1) /\ last.doc.a.t = "list"
    /\ Ser(heap, docs[1].doc) # Ser(last.before.h, last.before.docs[1].doc)

\* C2: a change the caller makes to the document it passed to insert_one, or
\* to a value it passed to $push, changes no stored document.
C2_NoAliasing ==
    (last.op = "mutate" /\ last.root \in {"arg", "pushed"}) => Now = Before

\* C3: a change the caller makes to a document that find, find_one or
\* aggregate returned, at any depth, changes no stored document and no
\* document another call returned.
C3_ReturnedCopies ==
    (last.op = "mutate" /\ last.root = "ret") =>
        /\ Now = Before
        /\ \A i \in 1..Len(held.ret) :
              held.ret[i].call # held.ret[last.idx].call
                  => Ser(heap, held.ret[i].doc) = last.rets[i]

C3_Witness ==
    /\ last.op = "mutate" /\ last.root = "ret" /\ last.n = 1
    /\ \E i \in 1..Len(held.ret) : held.ret[i].call # held.ret[last.idx].call
    /\ Ser(heap, held.ret[last.idx].doc) # last.rets[last.idx]

\* C4 as stated: update_one returns modified_count 1 exactly when the content
\* of the collection after the call differs from its content before.
C4_ModifiedIffChanged ==
    (last.op = "update_one" /\ last.err = "") => ((last.n = 1) <=> (Now # Before))

\* C4 as amended: modified_count 0 means the content is unchanged, and
\* modified_count 1 means it differs unless the update carries both $push and
\* $pull (a value pushed and pulled again counts as a modification).
C4_ModifiedCount ==
    (last.op = "update_one" /\ last.err = "") =>
        /\ last.n \in {0, 1}
        /\ last.n = 0 => Now = Before
        /\ (last.n = 1 /\ ~(last.update.hasPush /\ last.update.hasPull)) => Now # Before

C4_Witness ==
    /\ last.op = "update_one" /\ last.err = "" /\ last.n = 1
    /\ last.update.hasPull /\ ~last.update.hasPush
    /\ Now # Before

\* C5: update_one changes no document but the first one that matches the
\* query, keeps the keys, and changes nothing and returns 0 when none matches.
C5_TouchesOne ==
    (last.op = "update_one") =>
        LET m == Matched(last.before.h, last.before.docs, last.query)
        IN /\ Len(docs) = Len(last.before.docs)
           /\ \A i \in 1..Len(docs) :
                 /\ docs[i].key = last.before.docs[i].key
                 /\ i # m => Now[i] = Before[i]
           /\ m = 0 => last.n = 0

C5_Witness ==
    /\ last.op = "update_one" /\ last.n = 1 /\ Len(docs) = 2
    /\ last.query = QAll
    /\ Now[1] # Before[1]

\* What $pull of the value just pushed leaves at the path, against what the
\* path held before the push.
AfterPull ==
    LET b == BuildUpdate(heap, Pull(last.update.push))
        r == update_one(b.h, docs, last.query, b.update)
    IN Ser(r.h, FieldAt(r.h, r.docs, Matched(heap, docs, last.query),
                        last.update.push[1].path))
BeforePush ==
    FieldAt(last.before.h, last.before.docs,
            Matched(last.before.h, last.before.docs, last.query),
            last.update.push[1].path)
Pushed ==
    /\ last.op = "update_one" /\ last.err = ""
    /\ last.update.hasPush /\ ~last.update.hasPull /\ Len(last.update.push) = 1
    /\ Matched(heap, docs, last.query) # 0
    /\ Matched(heap, docs, last.query)
           = Matched(last.before.h, last.before.docs, last.query)
PushedValue == Build(last.before.h, last.update.push[1].value)

\* C6 as stated: $push of a value then $pull of the same value on the same
\* field of the same document returns the field to its state before the push.
C6_RoundTrip ==
    Pushed => AfterPull = Ser(last.before.h, BeforePush)

\* C6 as amended: the round trip holds when the field held, before the push,
\* a sequence that does not contain the value, or a value that is neither a
\* sequence nor Null; an absent or Null field ends as the empty sequence, and
\* a sequence that contained the value loses every occurrence of it.
C6_RoundTripWhenNew ==
    (/\ Pushed
     /\ \/ /\ IsList(last.before.h, BeforePush)
           /\ ~\E i \in 1..Len(last.before.h[BeforePush.v].items) :
                 Ser(last.before.h, last.before.h[BeforePush.v].items[i])
                     = Ser(PushedValue.h, PushedValue.val)
        \/ ~IsList(last.before.h, BeforePush) /\ BeforePush # NoneV)
        => AfterPull = Ser(last.before.h, BeforePush)

C6_Witness ==
    /\ Pushed
    /\ IsList(last.before.h, BeforePush)
    /\ last.n = 1
    /\ AfterPull = Ser(last.before.h, BeforePush)

\* C7: a criterion with several operators matches only a value that
\* satisfies each of them: a document found with $in and $gte together has a
\* value not below the $gte bound.
C7_OperatorsAnded ==
    (/\ last.op = "find_one" /\ last.err = "" /\ last.found
     /\ OneCriterion(last.query)
     /\ last.query[1].criteria.hasIn /\ last.query[1].criteria.hasGte)
        => LET value == get_nested_value(heap, LastRet, last.query[1].path)
           IN /\ value.t = last.query[1].criteria.gte.t
              /\ value.v >= last.query[1].criteria.gte.v

\* C8: find_one, count_documents, the iteration of find and update_one never
\* raise on a $gte or $lte between values that are not order-comparable.
C8_NoTypeError ==
    (last.op \in {"find_one", "count_documents", "next", "update_one"})
        => last.err # "TypeError"

\* The order $sort is specified to give: Absent and Null first, then by
\* value in the direction, input order among equals.
SortPrecedes(h, d, path, dir, i, j) ==
    LET x == FieldAt(h, d, i, path)
        y == FieldAt(h, d, j, path)
        rank(w) == IF w.t = "num" THEN 1 ELSE IF w.t = "str" THEN 2 ELSE 3
        less(u, w) == rank(u) < rank(w) \/ (rank(u) = rank(w) /\ u.t # "ref" /\ u.v < w.v)
    IN IF x = NoneV THEN y # NoneV \/ i < j
       ELSE IF y = NoneV THEN FALSE
       ELSE IF dir > 0 /\ less(x, y) THEN TRUE
       ELSE IF dir > 0 /\ less(y, x) THEN FALSE
       ELSE IF dir < 0 /\ less(y, x) THEN TRUE
       ELSE IF dir < 0 /\ less(x, y) THEN FALSE
       ELSE i < j
SortSpec(h, d, path, dir) ==
    [p \in 1..Len(d) |->
        LET i == CHOOSE k \in 1..Len(d) :
                    Cardinality({j \in 1..Len(d) : j # k /\ SortPrecedes(h, d, path, dir, j, k)})
                        = p - 1
        IN Ser(h, d[i].doc)]

\* C9: aggregate with a $sort stage returns the documents stable-sorted by the
\* field, in the direction given, those without the field first.
C9_SortStage ==
    (last.op = "aggregate" /\ Len(last.pipeline) = 1 /\ last.pipeline[1].op = "$sort") =>
        /\ last.err = ""
        /\ last.n = Len(docs)
        /\ Len(held.ret) >= last.n
        /\ [p \in 1..last.n |-> Ser(heap, held.ret[Len(held.ret) - last.n + p].doc)]
               = SortSpec(heap, docs, last.pipeline[1].path, last.pipeline[1].dir)

\* C10: the iteration of find, interleaved with insert_one and update_one,
\* never fails, and what it yields is a copy of a stored document that
\* matches, as stored when it is yielded.
C10_InterleavedFind ==
    (last.op = "next") =>
        /\ last.err \in {"", "StopIteration"}
        /\ last.found =>
              \E i \in 1..Len(docs) :
                  /\ matches_query(heap, docs[i].doc, last.query) = "true"
                  /\ Ser(heap, LastRet) = Ser(heap, docs[i].doc)

\* C11: insert_one fails with the invalid-document error exactly when the
\* document has no "_id" field, and then leaves the collection as it was; a
\* document that has the field is stored under it.
C11_InvalidDocument ==
    (last.op = "insert_one") =>
        /\ (last.err = "ValueError") <=> (last.doc.id = Absent)
        /\ last.err # "" => Now = Before
        /\ last.doc.id # Absent =>
              /\ last.err = ""
              /\ KeyIndex(docs, last.doc.id) # 0

\* The entries stored under a key.
Under(d, key) == {i \in 1..Len(d) : d[i].key = key}
InsertedDoc == BuildDoc(<<>>, last.doc)

\* C12: after insert_one succeeds there is exactly one document under the
\* key, with the content of this call (also when the key was taken), and the
\* documents under every other key are as they were.
C12_SecondInsertWins ==
    (last.op = "insert_one" /\ last.err = "") =>
        /\ Cardinality(Under(docs, last.doc.id)) = 1
        /\ \A i \in Under(docs, last.doc.id) :
              Ser(heap, docs[i].doc) = Ser(InsertedDoc.h, InsertedDoc.val)
        /\ \A j \in 1..Len(last.before.docs) :
              /\ j <= Len(docs)
              /\ docs[j].key = last.before.docs[j].key
              /\ docs[j].key # last.doc.id => Now[j] = Before[j]
        /\ Len(docs) = Len(last.before.docs)
                         + (IF Under(last.before.docs, last.doc.id) = {} THEN 1 ELSE 0)

C12_Witness ==
    /\ last.op = "insert_one" /\ last.err = ""
    /\ Len(docs) = 2 /\ Len(last.before.docs) = 2
    /\ \E i \in Under(docs, last.doc.id) : Now[i] # Before[i]

\* C13: in every state, whatever calls led to it, count_documents({}) is the
\* number of distinct keys insert_one has stored a document under: an
\* overwrite and an update leave it as it is, and since keys are only ever
\* added it never decreases.
C13_CountIsKeysInserted ==
    /\ count_documents(heap, docs, QAll).err = ""
    /\ count_documents(heap, docs, QAll).n = Cardinality(inserted)
    /\ (last.op = "count_documents" /\ last.query = QAll) =>
          last.err = "" /\ last.n = Cardinality(inserted)

C13_Witness ==
    /\ last.op = "insert_one" /\ last.err = ""
    /\ Len(last.before.docs) = Len(docs)
    /\ Cardinality(inserted) = 2
    /\ count_documents(heap, docs, QAll).n = 2

\* The keys $group is specified to see, as contents: per stored document the
\* value at the path, or, after $unwind of the same path, the elements of
\* the sequence there (the value itself when it is no sequence).
RECURSIVE GroupInput(_, _, _, _, _)
GroupInput(h, d, path, unwound, i) ==
    IF i > Len(d) THEN <<>>
    ELSE LET value == FieldAt(h, d, i, path)
         IN (IF unwound /\ IsList(h, value)
             THEN [k \in 1..Len(h[value.v].items) |-> Ser(h, h[value.v].items[k])]
             ELSE <<Ser(h, value)>>)
            \o GroupInput(h, d, path, unwound, i + 1)

\* The distinct elements of a sequence in first-seen order.
RECURSIVE FirstSeen(_, _)
FirstSeen(keys, seen) ==
    IF keys = <<>> THEN <<>>
    ELSE IF Head(keys) \in seen THEN FirstSeen(Tail(keys), seen)
    ELSE <<Head(keys)>> \o FirstSeen(Tail(keys), seen \cup {Head(keys)})

GroupPipeline ==
    /\ last.op = "aggregate"
    /\ Len(last.pipeline) \in {1, 2}
    /\ last.pipeline[Len(last.pipeline)].op = "$group"
    /\ Len(last.pipeline) = 2 =>
          /\ last.pipeline[1].op = "$unwind"
          /\ last.pipeline[1].path = last.pipeline[2].path

\* C14: $group yields one document {_id: key} per distinct value at the
\* path, in first-seen order, whatever kind of value the key is; after
\* $unwind of the same path, one per distinct element.
C14_GroupDistinct ==
    GroupPipeline =>
        /\ last.err = ""
        /\ Len(held.ret) >= last.n
        /\ [p \in 1..last.n |->
               Ser(heap, held.ret[Len(held.ret) - last.n + p].doc)]
             = [p \in 1..Len(FirstSeen(GroupInput(heap, docs,
                                                  last.pipeline[Len(last.pipeline)].path,
                                                  Len(last.pipeline) = 2, 1), {})) |->
                   <<5>> \o FirstSeen(GroupInput(heap, docs,
                                                 last.pipeline[Len(last.pipeline)].path,
                                                 Len(last.pipeline) = 2, 1), {})[p]
                         \o Ser(heap, Absent) \o Ser(heap, Absent)]

\* What the i-th stored document holds under a top-level field: Absent when
\* it has no such field, None when the field holds None.
StoredAt(h, d, i, field) == h[d[i].doc.v].f[field]

\* The last call was update_one with $push alone, of one top-level field,
\* and it matched a document.
PushedField ==
    /\ last.op = "update_one"
    /\ last.update.hasPush /\ ~last.update.hasPull
    /\ Len(last.update.push) = 1 /\ Len(last.update.push[1].path) = 1
    /\ Matched(last.before.h, last.before.docs, last.query) # 0
TargetBefore ==
    StoredAt(last.before.h, last.before.docs,
             Matched(last.before.h, last.before.docs, last.query),
             last.update.push[1].path[1])

\* C15: $push on a field that is present and holds a value that is no
\* sequence (None included) leaves the document as it was, raises nothing and
\* counts no modification.
C15_PushNonSequence ==
    (/\ PushedField
     /\ TargetBefore # Absent
     /\ ~IsList(last.before.h, TargetBefore))
        => /\ last.err = ""
           /\ last.n = 0
           /\ Now = Before

\* The last call carried a query of one criterion with $gte and $lte and
\* without $in, and every stored document holds a number at the path, holds
\* None there or has no such field.
RangeQuery ==
    /\ last.op \in {"count_documents", "find_one"}
    /\ OneCriterion(last.query)
    /\ ~last.query[1].criteria.hasIn
    /\ last.query[1].criteria.hasGte /\ last.query[1].criteria.hasLte
    /\ Len(last.query[1].path) = 1
    /\ \A i \in 1..Len(docs) :
          StoredAt(heap, docs, i, last.query[1].path[1]).t \in {"num", "absent", "none"}
InRange(i) ==
    /\ StoredAt(heap, docs, i, last.query[1].path[1]).t = "num"
    /\ last.query[1].criteria.gte.v <= StoredAt(heap, docs, i, last.query[1].path[1]).v
    /\ StoredAt(heap, docs, i, last.query[1].path[1]).v <= last.query[1].criteria.lte.v

\* C16: $gte and $lte together on a numeric field match exactly the
\* documents whose value lies within the bounds, both inclusive; a document
\* without the field, or with None there, is never matched.
C16_InclusiveRange ==
    RangeQuery =>
        /\ last.err = ""
        /\ last.op = "count_documents" =>
              last.n = Cardinality({i \in 1..Len(docs) : InRange(i)})
        /\ last.op = "find_one" =>
              /\ last.found <=> (\E i \in 1..Len(docs) : InRange(i))
              /\ last.found =>
                    \E i \in 1..Len(docs) :
                        /\ InRange(i)
                        /\ \A j \in 1..(i - 1) : ~InRange(j)
                        /\ Ser(heap, LastRet) = Ser(heap, docs[i].doc)

C16_Witness ==
    /\ RangeQuery /\ last.op = "count_documents"
    /\ last.query[1].criteria.gte.v < last.query[1].criteria.lte.v
    /\ Len(docs) = 2 /\ last.n = 1
    /\ \E i \in 1..Len(docs) :
          StoredAt(heap, docs, i, last.query[1].path[1]).t \in {"absent", "none"}

\* The last call carried a query of one criterion with $in alone.
InQuery ==
    /\ last.op \in {"count_documents", "find_one"}
    /\ OneCriterion(last.query)
    /\ last.query[1].criteria.hasIn
    /\ ~last.query[1].criteria.hasGte /\ ~last.query[1].criteria.hasLte
Candidates ==
    {Ser(heap, last.query[1].criteria.opts[k]) : k \in 1..Len(last.query[1].criteria.opts)}
InMatch(i) ==
    IF IsList(heap, FieldAt(heap, docs, i, last.query[1].path))
    THEN \E k \in 1..Len(heap[FieldAt(heap, docs, i, last.query[1].path).v].items) :
            Ser(heap, heap[FieldAt(heap, docs, i, last.query[1].path).v].items[k])
                \in Candidates
    ELSE Ser(heap, FieldAt(heap, docs, i, last.query[1].path)) \in Candidates

\* C17: $in matches a document whose field is a sequence exactly when an
\* element of the sequence is among the candidates (never an empty
\* sequence), and any other document exactly when the value is among them.
C17_InMembership ==
    InQuery =>
        /\ last.err = ""
        /\ last.op = "count_documents" =>
              last.n = Cardinality({i \in 1..Len(docs) : InMatch(i)})
        /\ last.op = "find_one" =>
              /\ last.found <=> (\E i \in 1..Len(docs) : InMatch(i))
              /\ last.found =>
                    \E i \in 1..Len(docs) :
                        /\ InMatch(i)
                        /\ \A j \in 1..(i - 1) : ~InMatch(j)
                        /\ Ser(heap, LastRet) = Ser(heap, docs[i].doc)

C17_Witness ==
    /\ InQuery /\ last.op = "count_documents"
    /\ Len(docs) = 2 /\ last.n = 1
    /\ \E i, j \in 1..Len(docs) :
          /\ IsList(heap, FieldAt(heap, docs, i, last.query[1].path)) /\ InMatch(i)
          /\ IsList(heap, FieldAt(heap, docs, j, last.query[1].path)) /\ ~InMatch(j)
          /\ heap[FieldAt(heap, docs, j, last.query[1].path).v].items # <<>>

StageKeys == {"$unwind", "$group", "$sort"}

\* C18: aggregate with a pipeline that has a stage of another key than
\* $unwind, $group and $sort fails with the unsupported-stage error, wherever
\* the stage stands and whatever is stored, and leaves the collection as it
\* was.
C18_UnsupportedStage ==
    (/\ last.op = "aggregate"
     /\ \E i \in 1..Len(last.pipeline) : last.pipeline[i].op \notin StageKeys)
        => /\ last.err = "NotImplementedError"
           /\ Now = Before

\* C19: while update_one of one thread is in progress, a document that
\* find_one of another thread returns is the document as it was before the
\* update or as it is after the whole of it.
C19_NoMidMutation ==
    (/\ last.op = "find_one" /\ last.found
     /\ writer.st # "idle"
     /\ Matched(heap, docs, last.query) = writer.i)
        => Ser(heap, LastRet) \in {writer.pre, writer.post}

\* C20: every stored document has an "_id" field whose value is the key it
\* is stored under, and find_one on that key finds it, whatever insert_one
\* and update_one calls were made.
C20_IdIsKey ==
    \A i \in 1..Len(docs) :
        /\ StoredAt(heap, docs, i, "_id") = docs[i].key
        /\ Matched(heap, docs, Crit(<<"_id">>, Lit(docs[i].key))) = i

====
